---- MODULE Spec2Model ----
(***************************************************************************)
(* Resource Lifecycle Scheduler of the Discord DevOps bot: the schedule    *)
(* store of EC2Manager (src/src/aws/ec2.py), the APScheduler job store it  *)
(* drives, the start/stop gateway and the command handlers of              *)
(* src/src/bot/commands.py that reach it.                                  *)
(*                                                                         *)
(* Strings the code parses are sequences of one-character strings, so that *)
(* split(':') and int() are computed, not assumed.                         *)
(***************************************************************************)
EXTENDS Integers, Sequences, FiniteSets, TLC

\* ------------------------------------------------------------------------
\* Bounds of the model
\* ------------------------------------------------------------------------
\* the clock runs over 0..MaxNow (abstract ticks of datetime.now())
MaxNow == 2
\* MAX_SCHEDULES_PER_INSTANCE is read from the environment: 1..MaxCap
MaxCap == 2
\* SCHEDULE_RETENTION_DAYS is read from the environment: 1..MaxRetention ticks
MaxRetention == 1

\* Python's None: for a time argument, for a name, for a missing record
NoTime == <<"None">>
None == "None"
NoSchedule == [none |-> TRUE]

\* ------------------------------------------------------------------------
\* Time strings and their parsing (ec2.py 267-293)
\* ------------------------------------------------------------------------
T0900 == <<"0", "9", ":", "0", "0">>
T1800 == <<"1", "8", ":", "0", "0">>
T9_5 == <<"9", ":", "5">>
T2500 == <<"2", "5", ":", "0", "0">>
T1260 == <<"1", "2", ":", "6", "0">>
Tabc == <<"a", "b", "c">>
T1_2_3 == <<"1", ":", "2", ":", "3">>
Tempty == <<>>

\* the time arguments a caller passes: strings, or nothing (None)
TimeArgs == {NoTime, T0900, T1800, T9_5, T2500, T1260, Tabc, T1_2_3}

DigitChars == {"0", "1", "2", "3", "4", "5", "6", "7", "8", "9"}

DigitVal(c) ==
    CASE c = "0" -> 0 [] c = "1" -> 1 [] c = "2" -> 2 [] c = "3" -> 3
      [] c = "4" -> 4 [] c = "5" -> 5 [] c = "6" -> 6 [] c = "7" -> 7
      [] c = "8" -> 8 [] c = "9" -> 9

\* str.split(':'): the fields between the separators; "" gives one empty field
RECURSIVE split(_)
split(s) ==
    IF \A i \in 1..Len(s) : s[i] # ":"
    THEN <<s>>
    ELSE LET k == CHOOSE i \in 1..Len(s) :
                      s[i] = ":" /\ \A j \in 1..(i - 1) : s[j] # ":"
         IN  <<SubSeq(s, 1, k - 1)>> \o split(SubSeq(s, k + 1, Len(s)))

RECURSIVE DigitsValue(_)
DigitsValue(d) ==
    IF Len(d) = 0 THEN 0
    ELSE 10 * DigitsValue(SubSeq(d, 1, Len(d) - 1)) + DigitVal(d[Len(d)])

\* int(field) over the alphabet of digits, sign and letters: an optional sign
\* followed by one or more digits, else ValueError (ok = FALSE)
int(f) ==
    LET signed == Len(f) > 0 /\ f[1] \in {"-", "+"}
        d == IF signed THEN SubSeq(f, 2, Len(f)) ELSE f
    IN  IF Len(d) = 0 \/ \E i \in 1..Len(d) : d[i] \notin DigitChars
        THEN [ok |-> FALSE, val |-> 0]
        ELSE [ok |-> TRUE,
              val |-> IF signed /\ f[1] = "-" THEN 0 - DigitsValue(d)
                      ELSE DigitsValue(d)]

\* hour, minute = map(int, t.split(':')): ValueError unless exactly two
\* fields that int() accepts
ParseTime(t) ==
    LET fs == split(t)
    IN  IF Len(fs) # 2 \/ ~int(fs[1]).ok \/ ~int(fs[2]).ok
        THEN [ok |-> FALSE, hour |-> 0, minute |-> 0]
        ELSE [ok |-> TRUE, hour |-> int(fs[1]).val, minute |-> int(fs[2]).val]

\* the parse of every time string of the model, computed once
Parsed == [t \in TimeArgs \ {NoTime} |-> ParseTime(t)]

\* 0 <= hour <= 23 and 0 <= minute <= 59
InRange(p) == 0 <= p.hour /\ p.hour <= 23 /\ 0 <= p.minute /\ p.minute <= 59

Minutes(p) == p.hour * 60 + p.minute

\* ------------------------------------------------------------------------
\* Resource registry (config.py 23-42, ec2.py 66-85)
\* ------------------------------------------------------------------------
\* EC2_FULL_CONTROL_INSTANCES / EC2_METRICS_ONLY_INSTANCES as name:id pairs
EC2_FULL_CONTROL == << <<"web", "i-web">> >>
EC2_METRICS_ONLY == << <<"mon", "i-mon">> >>
\* RDS_FULL_CONTROL_INSTANCES / RDS_METRICS_ONLY_INSTANCES as id:name pairs
RDS_FULL_CONTROL == << <<"rds-main", "maindb">> >>
RDS_METRICS_ONLY == << <<"rds-1", "db-1">> >>

\* the dict a loop of d[key] = value builds: a later pair overrides an earlier
DictOf(pairs, k, v) ==
    [n \in {pairs[i][k] : i \in DOMAIN pairs} |->
        pairs[CHOOSE i \in DOMAIN pairs :
                  pairs[i][k] = n /\ \A j \in DOMAIN pairs : pairs[j][k] = n => j <= i][v]]

Values(d) == {d[n] : n \in DOMAIN d}

full_control_instances == DictOf(EC2_FULL_CONTROL, 1, 2)
metrics_only_instances == DictOf(EC2_METRICS_ONLY, 1, 2)
\* {**full_control_instances, **metrics_only_instances}
all_instances == metrics_only_instances @@ full_control_instances

EC2_INSTANCES == DictOf(EC2_FULL_CONTROL \o EC2_METRICS_ONLY, 1, 2)
EC2_CONTROL_LEVELS ==
    [n \in DOMAIN EC2_INSTANCES |->
        IF n \in DOMAIN DictOf(EC2_METRICS_ONLY, 1, 2) THEN 2 ELSE 1]

RDS_INSTANCES == DictOf(RDS_FULL_CONTROL \o RDS_METRICS_ONLY, 2, 1)
RDS_CONTROL_LEVELS ==
    [n \in DOMAIN RDS_INSTANCES |->
        IF n \in DOMAIN DictOf(RDS_METRICS_ONLY, 2, 1) THEN 2 ELSE 1]

\* is_full_control asking all_instances instead of full_control_instances
is_full_controlAnyInstance(instance_id) ==
    instance_id \in DOMAIN all_instances \/ instance_id \in Values(all_instances)

\* EC2Manager.is_full_control (ec2.py 87-93): a name or an id of a
\* full-control instance
is_full_control(instance_id) ==
    instance_id \in DOMAIN full_control_instances
        \/ instance_id \in Values(full_control_instances)

\* names a user may type: the configured ones and one that is not configured
Ghost == "ghost"
EC2Names == DOMAIN EC2_INSTANCES \cup {Ghost}
RDSNames == DOMAIN RDS_INSTANCES \cup {Ghost}
InstanceIds == Values(EC2_INSTANCES)

\* ------------------------------------------------------------------------
\* Configuration defaults (ec2.py 59-64)
\* ------------------------------------------------------------------------
timezone == "Asia/Ho_Chi_Minh"
default_start_time == T0900
default_stop_time == T1800

\* ------------------------------------------------------------------------
\* State
\* ------------------------------------------------------------------------
VARIABLES
    now,                          \* datetime.now(), in ticks
    max_schedules_per_instance,   \* self.max_schedules_per_instance
    schedule_retention_days,      \* self.schedule_retention_days, in ticks
    schedules,                    \* self.schedules: instance id -> record
    jobs,                         \* the jobs held by self.scheduler
    cmd,                          \* the EC2 command waiting in its poll loop
    poll,                         \* the session of EC2Manager.wait_for_state
    removed,                      \* ids unscheduled since their last schedule call
    last,                         \* the last operation: what it returned and called
    eks,                          \* the running call of EKSManager on 'perf-dev'
    monitor,                      \* EKSCommands: max_running_hours, notified_nodegroups
    perf,                         \* the performance nodegroup in the control plane
    view,                         \* the confirmation view of a nodegroup command
    instance_info                 \* RDSInstanceTypeInfo: the memory cache

vars == <<now, max_schedules_per_instance, schedule_retention_days,
          schedules, jobs, cmd, poll, removed, last, eks, monitor, perf,
          view, instance_info>>

\* the state of the EKS and RDS managers and of the confirmation views
managers == <<eks, monitor, perf, view, instance_info>>

\* datetime.isoformat() / datetime.fromisoformat(): the stored text of a time
isoformat(t) == <<"iso", t>>
fromisoformat(s) == s[2]

NoCall == <<>>
Idle == [kind |-> "idle"]

\* no wait_for_state call is running
NoSession ==
    [pc |-> "idle", target |-> None, timeout |-> 0, elapsed |-> 0,
     queries |-> 0, sleeps |-> 0, outcome |-> None]

\* ------------------------------------------------------------------------
\* The scheduler's job store (apscheduler calls of ec2.py 302-329, 354-355)
\* ------------------------------------------------------------------------
JobId(kind, instance_id) == <<kind, instance_id>>

HasJob(js, jid) == \E j \in js : j.id = jid

\* scheduler.remove_job(id), for an id that HasJob
remove_job(js, jid) == {j \in js : j.id # jid}

\* scheduler.add_job(func, 'cron', hour, minute, id, args, timezone,
\* replace_existing=True)
add_job(js, j) == {x \in js : x.id # j.id} \cup {j}

CronJob(kind, instance_id, p) ==
    [id |-> JobId(kind, instance_id),
     func |-> IF kind = "start" THEN "start_instance" ELSE "stop_instance",
     arg |-> instance_id, hour |-> p.hour, minute |-> p.minute,
     timezone |-> timezone]

\* ------------------------------------------------------------------------
\* EC2Manager: the schedule store
\* ------------------------------------------------------------------------
\* the three refusals of a time that is not HH:MM with 0<=HH<=23, 0<=MM<=59
InvalidTimeFormat == {"InvalidStartTime", "InvalidStopTime", "InvalidFormat"}

\* the outcomes of describe_instances in instance_exists (ec2.py 384-392)
ExistsOutcomes == {"found", "notfound", "error"}

\* which scheduler call of a handler raises, if any
NoFault == "none"
RemoveFaults == {"remove_job start", "remove_job stop"}
AddFaults == RemoveFaults \cup {"add_job start", "add_job stop"}

ScheduleRecord(server_name, st, sp, created, expires) ==
    [server_name |-> server_name, start_time |-> st, stop_time |-> sp,
     timezone |-> timezone, created_at |-> isoformat(created),
     expires_at |-> isoformat(expires)]

\* LimitReached that never refuses
LimitReachedNever(instance_id) == FALSE

\* the check of the schedule limit (ec2.py 263)
LimitReached(instance_id) ==
    Cardinality(DOMAIN schedules) >= max_schedules_per_instance

\* InstallSchedule without the removal of the old jobs and without
\* replace_existing: the new jobs are added next to the old ones
InstallScheduleKeepOld(instance_id, server_name, st, sp, ps, pp, skew, f) ==
    [err |-> "ok",
     schedules |->
         (instance_id :> ScheduleRecord(server_name, st, sp, now + skew,
                                        now + schedule_retention_days)) @@ schedules,
     jobs |-> jobs \cup {CronJob("start", instance_id, ps),
                         CronJob("stop", instance_id, pp)},
     now |-> now + skew, replaced |-> instance_id \in DOMAIN schedules]

\* ec2.py 299-339: the old jobs removed, the new ones added, the record stored;
\* an exception of a scheduler call leaves what was done before it
InstallSchedule(instance_id, server_name, st, sp, ps, pp, skew, f) ==
    LET startId == JobId("start", instance_id)
        stopId == JobId("stop", instance_id)
        expiration_date == now + schedule_retention_days
        replacing == instance_id \in DOMAIN schedules
        r1 == replacing /\ (f = "remove_job start" \/ ~HasJob(jobs, startId))
        j1 == IF replacing /\ ~r1 THEN remove_job(jobs, startId) ELSE jobs
        r2 == replacing /\ ~r1 /\ (f = "remove_job stop" \/ ~HasJob(j1, stopId))
        j2 == IF replacing /\ ~r1 /\ ~r2 THEN remove_job(j1, stopId) ELSE j1
        a1 == ~r1 /\ ~r2 /\ f = "add_job start"
        j3 == IF ~r1 /\ ~r2 /\ ~a1
              THEN add_job(j2, CronJob("start", instance_id, ps)) ELSE j2
        a2 == ~r1 /\ ~r2 /\ ~a1 /\ f = "add_job stop"
        j4 == IF ~r1 /\ ~r2 /\ ~a1 /\ ~a2
              THEN add_job(j3, CronJob("stop", instance_id, pp)) ELSE j3
        raised == r1 \/ r2 \/ a1 \/ a2
    IN  IF raised
        THEN [err |-> "Error", schedules |-> schedules, jobs |-> j4, now |-> now,
              replaced |-> replacing]
        ELSE [err |-> "ok",
              schedules |->
                  (instance_id :> ScheduleRecord(server_name, st, sp, now + skew,
                                                 expiration_date)) @@ schedules,
              jobs |-> j4, now |-> now + skew, replaced |-> replacing]

\* EC2Manager.add_schedule (ec2.py 245-346)
add_schedule(instance_id, server_name, start_time, stop_time, exists, skew, f) ==
    LET st == IF start_time \in {NoTime, Tempty} THEN default_start_time ELSE start_time
        sp == IF stop_time \in {NoTime, Tempty} THEN default_stop_time ELSE stop_time
        ps == Parsed[st]
        pp == Parsed[sp]
        refuse(e) == [err |-> e, schedules |-> schedules, jobs |-> jobs,
                      now |-> now, replaced |-> FALSE]
    IN  CASE exists = "error" -> refuse("Error")
          [] exists = "notfound" -> refuse("ResourceNotFound")
          [] OTHER ->
             IF LimitReached(instance_id) THEN refuse("ScheduleLimitExceeded")
             ELSE IF ~ps.ok \/ ~pp.ok THEN refuse("InvalidFormat")
             ELSE IF ~InRange(ps) THEN refuse("InvalidStartTime")
             ELSE IF ~InRange(pp) THEN refuse("InvalidStopTime")
             ELSE IF Minutes(pp) <= Minutes(ps) THEN refuse("InvalidTimeRange")
             ELSE InstallSchedule(instance_id, server_name, st, sp, ps, pp, skew, f)

\* remove_schedule that cancels the jobs and forgets to delete the record
remove_scheduleKeepRecord(sch, js, instance_id, f) ==
    IF instance_id \notin DOMAIN sch
    THEN [err |-> "ScheduleNotFound", schedules |-> sch, jobs |-> js]
    ELSE [err |-> "ok", schedules |-> sch,
          jobs |-> {j \in js : j.arg # instance_id}]

\* remove_schedule that deletes the record and cancels only the start job
remove_scheduleKeepStopJob(sch, js, instance_id, f) ==
    IF instance_id \notin DOMAIN sch
    THEN [err |-> "ScheduleNotFound", schedules |-> sch, jobs |-> js]
    ELSE [err |-> "ok",
          schedules |-> [i \in DOMAIN sch \ {instance_id} |-> sch[i]],
          jobs |-> remove_job(js, JobId("start", instance_id))]

\* EC2Manager.remove_schedule (ec2.py 348-361) on a store sch and job set js
remove_schedule(sch, js, instance_id, f) ==
    LET startId == JobId("start", instance_id)
        stopId == JobId("stop", instance_id)
    IN  IF instance_id \notin DOMAIN sch
        THEN [err |-> "ScheduleNotFound", schedules |-> sch, jobs |-> js]
        ELSE IF f = "remove_job start" \/ ~HasJob(js, startId)
        THEN [err |-> "Error", schedules |-> sch, jobs |-> js]
        ELSE LET j1 == remove_job(js, startId)
             IN  IF f = "remove_job stop" \/ ~HasJob(j1, stopId)
                 THEN [err |-> "Error", schedules |-> sch, jobs |-> j1]
                 ELSE [err |-> "ok",
                       schedules |-> [i \in DOMAIN sch \ {instance_id} |-> sch[i]],
                       jobs |-> remove_job(j1, stopId)]

\* EC2Manager.get_schedule (ec2.py 363-365): self.schedules.get(instance_id)
get_schedule(instance_id) ==
    IF instance_id \in DOMAIN schedules THEN schedules[instance_id] ELSE NoSchedule

\* EC2Manager.list_schedules (ec2.py 367-369)
list_schedules == schedules

\* IsExpired with >= for >
IsExpiredAtOrAfter(schedule, t) == t >= fromisoformat(schedule.expires_at)

\* the comparison of cleanup_expired_schedules (ec2.py 377-378)
IsExpired(schedule, t) == t > fromisoformat(schedule.expires_at)

ExpiredAt(sch, t) == {i \in DOMAIN sch : IsExpired(sch[i], t)}

\* the loop of ec2.py 381-382: remove_schedule for each expired id; ff gives
\* the scheduler call that raises while that id is removed
RECURSIVE RemoveAll(_, _, _, _)
RemoveAll(sch, js, ids, ff) ==
    IF ids = {} THEN [schedules |-> sch, jobs |-> js]
    ELSE LET i == CHOOSE x \in ids : TRUE
             r == remove_schedule(sch, js, i, ff[i])
         IN  RemoveAll(r.schedules, r.jobs, ids \ {i}, ff)

\* EC2Manager.cleanup_expired_schedules (ec2.py 371-382)
cleanup_expired_schedules(ff) ==
    RemoveAll(schedules, jobs, ExpiredAt(schedules, now), ff)

\* ------------------------------------------------------------------------
\* The action gateway: EC2Manager.start_instance / stop_instance, RDSManager
\* ------------------------------------------------------------------------
\* the outcomes of an external control-plane call
ApiOutcomes == {"ack", "raise"}

InstanceStates ==
    {"running", "stopped", "pending", "stopping", "terminated", "shutting-down"}

\* the answers of a describe_instances status query
StateQueries == [ok : {TRUE}, state : InstanceStates]
                    \cup {[ok |-> FALSE, state |-> "error"]}

\* the name-to-id step of start_instance / stop_instance (ec2.py 142-143)
Resolve(instance_id) ==
    IF instance_id \in DOMAIN all_instances THEN all_instances[instance_id]
    ELSE instance_id

\* start_instance that reports success when the external call raised
start_instanceOkOnRaise(instance_id, api) ==
    IF ~is_full_control(Resolve(instance_id))
    THEN [err |-> "PermissionDenied", call |-> NoCall]
    ELSE [err |-> "ok", call |-> <<"ec2.start_instances", Resolve(instance_id)>>]

\* EC2Manager.start_instance (ec2.py 138-154)
start_instance(instance_id, api) ==
    LET id == Resolve(instance_id)
    IN  IF ~is_full_control(id)
        THEN [err |-> "PermissionDenied", call |-> NoCall]
        ELSE [err |-> IF api = "raise" THEN "ActionFailed" ELSE "ok",
              call |-> <<"ec2.start_instances", id>>]

\* EC2Manager.stop_instance (ec2.py 156-172)
stop_instance(instance_id, api) ==
    LET id == Resolve(instance_id)
    IN  IF ~is_full_control(id)
        THEN [err |-> "PermissionDenied", call |-> NoCall]
        ELSE [err |-> IF api = "raise" THEN "ActionFailed" ELSE "ok",
              call |-> <<"ec2.stop_instances", id>>]

\* Python values of different types never compare equal: a value carries
\* its type
PyBool(b) == <<"bool", b>>
PyStr(x) == <<"str", x>>
PyTrue == PyBool(TRUE)

\* EC2Manager.get_instance_state (ec2.py 505-518): (True, state) or
\* (False, str(e))
get_instance_state(q) ==
    IF q.ok THEN <<PyTrue, PyStr(q.state)>>
    ELSE <<PyBool(FALSE), PyStr("error text")>>

\* RDSManager.start_instance (rds.py 160-180)
rds_start_instance(db_instance_id, replica, api) ==
    IF replica
    THEN [err |-> "ReadReplica", call |-> NoCall]
    ELSE [err |-> IF api = "raise" THEN "ActionFailed" ELSE "ok",
          call |-> <<"rds.start_db_instance", db_instance_id>>]

\* RDSManager.stop_instance (rds.py 182-202)
rds_stop_instance(db_instance_id, replica, api) ==
    IF replica
    THEN [err |-> "ReadReplica", call |-> NoCall]
    ELSE [err |-> IF api = "raise" THEN "ActionFailed" ELSE "ok",
          call |-> <<"rds.stop_db_instance", db_instance_id>>]

RdsStatuses == {"available", "stopped", "starting", "stopping"}
RdsQueries == [ok : {TRUE}, status : RdsStatuses]
                  \cup {[ok |-> FALSE, status |-> "error"]}

\* a bare status word, as the command compares it
Word(w) == <<w>>

\* RDSManager.get_instance_status (rds.py 204-221): (True, the sentence
\* "Trang thai cua RDS instance <id>: <status>") or (False, the error text)
rds_get_instance_status(db_instance_id, q) ==
    IF q.ok THEN <<TRUE, <<"status of", db_instance_id, q.status>> >>
    ELSE <<FALSE, <<"error text">> >>

\* EC2Commands.wait_for_rds_state (commands.py 179-213) over the answers qs of
\* its polls; the answers run out when STATE_CHECK_TIMEOUT has passed
RECURSIVE wait_for_rds_state(_, _, _)
wait_for_rds_state(instance_id, target_state, qs) ==
    IF qs = <<>> THEN "TimedOut"
    ELSE LET r == rds_get_instance_status(instance_id, Head(qs))
         IN  IF ~r[1] THEN "QueryFailed"
             ELSE IF r[2] = Word(target_state) THEN "ok"
             ELSE IF r[2] \in {Word("starting"), Word("stopping")}
             THEN wait_for_rds_state(instance_id, target_state, Tail(qs))
             ELSE "UnexpectedState"

\* ------------------------------------------------------------------------
\* Operations
\* ------------------------------------------------------------------------
Result(op, id, err, call) ==
    [op |-> op, id |-> id, err |-> err, call |-> call, expired |-> {},
     replaced |-> FALSE]

EmptyDict == [i \in {} |-> NoSchedule]

\* what a call of EKSManager returned: a (success, message) tuple, Python's
\* None when the function ran off its end, or nothing yet
Returned(success, message) ==
    [returned |-> "tuple", success |-> success, message |-> message]
ReturnedNone == [returned |-> "None", success |-> FALSE, message |-> None]
NotReturned == [returned |-> "not yet", success |-> FALSE, message |-> None]

\* the EKSCommands cog before its construction (commands.py 1398-1404)
NotLoaded ==
    [loaded |-> FALSE, max_running_hours |-> 0, notified_nodegroups |-> {}]

\* no performance nodegroup in the cluster; running is its running time at
\* the last monitor run, warned the warnings sent since it was created
NoNodegroup == [exists |-> FALSE, running |-> 0, warned |-> 0]

\* no nodegroup command is waiting for a confirmation
NoView ==
    [command |-> None, author |-> None, stage |-> "closed", value |-> None,
     pressed |-> None, by |-> None, refused |-> None, calls |-> <<>>]

\* RDSInstanceTypeInfo after __init__ (rds.py 35-37): no entry, no expiry;
\* served is what the last get_instance_memory returned and from where
NoExpiry == <<>>
NotServed == [class |-> None, source |-> "none", age |-> 0]
EmptyCache ==
    [cache |-> [c \in {} |-> 0], cache_expiry |-> NoExpiry, served |-> NotServed]

\* no call of EKSManager is running
NoEksCall ==
    [pc |-> "idle", op |-> None, first |-> None, last_status |-> None,
     elapsed |-> 0, polls |-> 0, calls |-> <<>>, result |-> NotReturned]

Init ==
    /\ now = 0
    /\ max_schedules_per_instance \in 1..MaxCap
    /\ schedule_retention_days \in 1..MaxRetention
    /\ schedules = EmptyDict
    /\ jobs = {}
    /\ cmd = Idle
    /\ poll = NoSession
    /\ removed = {}
    /\ last = Result("init", None, "ok", NoCall)
    /\ eks = NoEksCall
    /\ monitor = NotLoaded
    /\ perf = NoNodegroup
    /\ view = NoView
    /\ instance_info = EmptyCache

config == <<max_schedules_per_instance, schedule_retention_days>>

\* the state of EC2Manager and of the EC2 and RDS commands
ec2_state == <<now, config, poll, schedules, jobs, cmd, removed, last>>

\* the schedule command (commands.py 1181-1229) with EC2Manager.add_schedule
Schedule(server_name, start_time, stop_time, exists, skew, f) ==
    IF server_name \notin DOMAIN EC2_INSTANCES
    THEN /\ last' = Result("schedule", server_name, "ResourceNotFound", NoCall)
         /\ UNCHANGED <<now, config, managers, poll, schedules, jobs, cmd, removed>>
    ELSE LET instance_id == EC2_INSTANCES[server_name]
             r == add_schedule(instance_id, server_name, start_time, stop_time,
                               exists, skew, f)
         IN  /\ r.now <= MaxNow
             /\ schedules' = r.schedules
             /\ jobs' = r.jobs
             /\ now' = r.now
             /\ removed' = removed \ {instance_id}
             /\ last' = [Result("schedule", instance_id, r.err, NoCall)
                             EXCEPT !.replaced = r.replaced]
             /\ UNCHANGED <<config, managers, poll, cmd>>

\* the unschedule command (commands.py 1231-1259) with remove_schedule
Unschedule(server_name, f) ==
    IF server_name \notin DOMAIN EC2_INSTANCES
    THEN /\ last' = Result("unschedule", server_name, "ResourceNotFound", NoCall)
         /\ UNCHANGED <<now, config, managers, poll, schedules, jobs, cmd, removed>>
    ELSE LET instance_id == EC2_INSTANCES[server_name]
             r == remove_schedule(schedules, jobs, instance_id, f)
         IN  /\ schedules' = r.schedules
             /\ jobs' = r.jobs
             /\ removed' = IF r.err = "ok" THEN removed \cup {instance_id}
                           ELSE removed
             /\ last' = Result("unschedule", instance_id, r.err, NoCall)
             /\ UNCHANGED <<now, config, managers, poll, cmd>>

\* a call of EC2Manager.cleanup_expired_schedules; last.id keeps its local
\* list `expired`
Sweep(ff) ==
    LET r == cleanup_expired_schedules(ff)
    IN  /\ schedules' = r.schedules
        /\ jobs' = r.jobs
        /\ last' = [Result("sweep", None, "ok", NoCall)
                        EXCEPT !.expired = ExpiredAt(schedules, now)]
        /\ UNCHANGED <<now, config, managers, poll, cmd, removed>>

\* the clock advances
Tick ==
    /\ now < MaxNow
    /\ now' = now + 1
    /\ last' = Result("tick", None, "ok", NoCall)
    /\ UNCHANGED <<config, managers, poll, schedules, jobs, cmd, removed>>

\* STATE_CHECK_TIMEOUT (config.py 67), the timeout of an instance-state wait
STATE_CHECK_TIMEOUT == 300
\* asyncio.sleep(5) of the wait loops of the start and stop commands
CommandSleep == 5

\* the seconds a command has slept in its wait loop so far, followed until
\* they exceed STATE_CHECK_TIMEOUT
Slept(w) == IF w > STATE_CHECK_TIMEOUT THEN w ELSE w + CommandSleep

\* FireTrigger with a scheduler that drops a job whose run failed
FireTriggerDropFailed(j, api) ==
    LET r == IF j.func = "start_instance" THEN start_instance(j.arg, api)
             ELSE stop_instance(j.arg, api)
    IN  /\ j \in jobs
        /\ last' = Result(j.func, j.arg, r.err, r.call)
        /\ jobs' = IF r.err = "ok" THEN jobs ELSE jobs \ {j}
        /\ UNCHANGED <<now, config, managers, poll, schedules, cmd, removed>>

\* the scheduler runs a cron job: start_instance or stop_instance with the
\* job's args (ec2.py 307-329)
FireTrigger(j, api) ==
    LET r == IF j.func = "start_instance" THEN start_instance(j.arg, api)
             ELSE stop_instance(j.arg, api)
    IN  /\ j \in jobs
        /\ last' = Result(j.func, j.arg, r.err, r.call)
        /\ UNCHANGED <<now, config, managers, poll, schedules, jobs, cmd, removed>>

\* the stop command up to its wait loop (commands.py 334-375); one EC2
\* command at a time is followed through its loop
StopCommand(server_name, q, api) ==
    /\ cmd = Idle
    /\ UNCHANGED <<now, config, managers, poll, schedules, jobs, removed>>
    /\ IF server_name = None
       THEN cmd' = cmd /\ last' = Result("stop", None, "Listed", NoCall)
       ELSE IF server_name \notin DOMAIN EC2_INSTANCES
       THEN cmd' = cmd
            /\ last' = Result("stop", server_name, "ResourceNotFound", NoCall)
       ELSE IF EC2_CONTROL_LEVELS[server_name] # 1
       THEN cmd' = cmd
            /\ last' = Result("stop", server_name, "PermissionDenied", NoCall)
       ELSE LET instance_id == EC2_INSTANCES[server_name]
                s == get_instance_state(q)
                r == stop_instance(instance_id, api)
            IN  IF s[1] # PyTrue
                THEN cmd' = cmd
                     /\ last' = Result("stop", server_name, "QueryFailed", NoCall)
                ELSE IF s[2] = PyStr("stopped")
                THEN cmd' = cmd
                     /\ last' = Result("stop", server_name, "AlreadyStopped", NoCall)
                ELSE IF r.err # "ok"
                THEN cmd' = cmd
                     /\ last' = Result("stop", server_name, r.err, r.call)
                ELSE cmd' = [kind |-> "stop", name |-> server_name,
                             id |-> instance_id, waited |-> 0]
                     /\ last' = Result("stop", server_name, "Waiting", r.call)

\* one turn of the stop command's wait loop (commands.py 377-391)
StopPoll(q) ==
    /\ cmd # Idle
    /\ cmd.kind = "stop"
    /\ UNCHANGED <<now, config, managers, poll, schedules, jobs, removed>>
    /\ LET s == get_instance_state(q)
       IN  IF s[1] # PyTrue
           THEN cmd' = Idle
                /\ last' = Result("stop-poll", cmd.name, "QueryFailed", NoCall)
           ELSE IF s[2] = PyStr("stopped")
           THEN cmd' = Idle /\ last' = Result("stop-poll", cmd.name, "ok", NoCall)
           ELSE cmd' = [cmd EXCEPT !.waited = Slept(cmd.waited)]
                /\ last' = Result("stop-poll", cmd.name, "Waiting", NoCall)

\* the start command up to its wait loop (commands.py 274-310); it asks no
\* control level
StartCommand(server_name, q, api) ==
    /\ cmd = Idle
    /\ UNCHANGED <<now, config, managers, poll, schedules, jobs, removed>>
    /\ IF server_name = None
       THEN cmd' = cmd /\ last' = Result("start", None, "Listed", NoCall)
       ELSE IF server_name \notin DOMAIN EC2_INSTANCES
       THEN cmd' = cmd
            /\ last' = Result("start", server_name, "ResourceNotFound", NoCall)
       ELSE LET instance_id == EC2_INSTANCES[server_name]
                s == get_instance_state(q)
                r == start_instance(instance_id, api)
            IN  IF s[1] # PyTrue
                THEN cmd' = cmd
                     /\ last' = Result("start", server_name, "QueryFailed", NoCall)
                ELSE IF s[2] = PyStr("running")
                THEN cmd' = cmd
                     /\ last' = Result("start", server_name, "AlreadyRunning", NoCall)
                ELSE IF r.err # "ok"
                THEN cmd' = cmd
                     /\ last' = Result("start", server_name, r.err, r.call)
                ELSE cmd' = [kind |-> "start", name |-> server_name,
                             id |-> instance_id, waited |-> 0]
                     /\ last' = Result("start", server_name, "Waiting", r.call)

\* one turn of the start command's wait loop (commands.py 312-326)
StartPoll(q) ==
    /\ cmd # Idle
    /\ cmd.kind = "start"
    /\ UNCHANGED <<now, config, managers, poll, schedules, jobs, removed>>
    /\ LET s == get_instance_state(q)
       IN  IF s[1] # PyTrue
           THEN cmd' = Idle
                /\ last' = Result("start-poll", cmd.name, "QueryFailed", NoCall)
           ELSE IF s[2] = PyStr("running")
           THEN cmd' = Idle /\ last' = Result("start-poll", cmd.name, "ok", NoCall)
           ELSE cmd' = [cmd EXCEPT !.waited = Slept(cmd.waited)]
                /\ last' = Result("start-poll", cmd.name, "Waiting", NoCall)

\* ------------------------------------------------------------------------
\* EC2Manager.wait_for_state (ec2.py 520-567)
\* ------------------------------------------------------------------------
\* asyncio.sleep(5)
SleepSeconds == 5
\* timedelta.seconds is the seconds within the day: 0..86399
DaySeconds == 86400
\* the queries and sleeps of a session are counted up to MaxCount
MaxCount == 2

Count(n) == IF n < MaxCount THEN n + 1 ELSE MaxCount

\* what a caller may pass as target_state and as timeout
PollTargets == {"running", "stopped", "terminated"}
PollTimeouts == {0, 1, 10, 300}

\* ClassifyState that sleeps on the target state
ClassifyStateSleepOnTarget(target_state, q) ==
    IF ~q.ok THEN "QueryFailed"
    ELSE IF q.state \in {"terminated", "shutting-down"} THEN "Invalid"
    ELSE "Sleep"

\* ClassifyState that takes terminated and shutting-down as transitional
ClassifyStateNoInvalid(target_state, q) ==
    IF ~q.ok THEN "QueryFailed"
    ELSE IF q.state = target_state THEN "Reached"
    ELSE "Sleep"

\* ClassifyState that polls again after a failed query
ClassifyStateRetryFailed(target_state, q) ==
    IF ~q.ok THEN "Sleep"
    ELSE IF q.state = target_state THEN "Reached"
    ELSE IF q.state \in {"terminated", "shutting-down"} THEN "Invalid"
    ELSE "Sleep"

\* the body of the loop after the query (ec2.py 537-561), in its order
ClassifyState(target_state, q) ==
    LET success == get_instance_state(q)[1]
        current_state == get_instance_state(q)[2][2]
    IN  IF success # PyTrue THEN "QueryFailed"
        ELSE IF current_state = target_state THEN "Reached"
        ELSE IF target_state = "stopped" /\ current_state = "stopping" THEN "Sleep"
        ELSE IF target_state = "running" /\ current_state = "pending" THEN "Sleep"
        ELSE IF current_state \in {"terminated", "shutting-down"} THEN "Invalid"
        ELSE IF current_state \in {"stopping", "pending"} THEN "Sleep"
        ELSE "Sleep"

\* the call: start_time = datetime.now() (ec2.py 531-532)
WaitForState(target_state, timeout) ==
    /\ poll.pc = "idle"
    /\ poll' = [pc |-> "test", target |-> target_state, timeout |-> timeout,
                elapsed |-> 0, queries |-> 0, sleeps |-> 0, outcome |-> None]
    /\ UNCHANGED <<now, config, managers, schedules, jobs, cmd, removed, last>>

\* the loop condition (ec2.py 533): (now - start_time).seconds < timeout
LoopTest ==
    /\ poll.pc = "test"
    /\ poll' = IF poll.elapsed < poll.timeout
               THEN [poll EXCEPT !.pc = "query"]
               ELSE [poll EXCEPT !.pc = "done", !.outcome = "TimedOut"]
    /\ UNCHANGED <<now, config, managers, schedules, jobs, cmd, removed, last>>

\* one status query and what follows it (ec2.py 534-561); elapsed is what
\* the loop condition reads, (now - start_time).seconds, after the sleep
PollOnce(q) ==
    /\ poll.pc = "query"
    /\ LET c == ClassifyState(poll.target, q)
       IN  poll' = IF c = "Sleep"
                   THEN [poll EXCEPT !.pc = "test",
                                     !.queries = Count(poll.queries),
                                     !.sleeps = Count(poll.sleeps),
                                     !.elapsed =
                                         (poll.elapsed + SleepSeconds) % DaySeconds]
                   ELSE [poll EXCEPT !.pc = "done",
                                     !.queries = Count(poll.queries),
                                     !.outcome = c]
    /\ UNCHANGED <<now, config, managers, schedules, jobs, cmd, removed, last>>

\* the return to the caller; the session is discarded
WaitReturn ==
    /\ poll.pc = "done"
    /\ poll' = NoSession
    /\ last' = Result("wait_for_state", poll.target, poll.outcome, NoCall)
    /\ UNCHANGED <<now, config, managers, schedules, jobs, cmd, removed>>

\* ------------------------------------------------------------------------
\* EKSManager: the performance nodegroup (eks.py 271-334, 473-846)
\* ------------------------------------------------------------------------
\* max_wait_time = 20 * 60 (eks.py 566), asyncio.sleep(30) (eks.py 590)
max_wait_time == 1200
CreateSleep == 30
\* max_retries = 30 (eks.py 735)
max_retries == 30

NodegroupStatuses ==
    {"CREATING", "ACTIVE", "UPDATING", "DELETING", "CREATE_FAILED",
     "DELETE_FAILED", "DEGRADED"}

\* get_nodegroup_status (eks.py 271-334): the status, None when the nodegroup
\* is not found, or the error of describe_nodegroup raised again
StatusAnswers == NodegroupStatuses \cup {None, "raise"}

\* the outcomes of eks_client.create_nodegroup / delete_nodegroup: the
\* acknowledgement, a ClientError that the function names, another error
EksApiOutcomes == {"ack", "ResourceInUseException", "other error"}

EksDone(result) ==
    [eks EXCEPT !.pc = "done", !.result = result]

\* create_performance_nodegroup (eks.py 473-557) up to the create call:
\* status is the answer of the existence check, cost_ok that of
\* estimate_nodegroup_cost, api that of eks_client.create_nodegroup
create_performance_nodegroup(status, cost_ok, api) ==
    /\ eks.pc = "idle"
    /\ UNCHANGED <<ec2_state, monitor, perf, view, instance_info>>
    /\ LET begun == [NoEksCall EXCEPT !.op = "create", !.first = status]
           called == [begun EXCEPT !.calls = <<"eks.create_nodegroup">>]
       IN  IF status = "raise"
           THEN eks' = [begun EXCEPT !.pc = "done",
                                     !.result = Returned(FALSE, "unexpected error")]
           ELSE IF status # None
           THEN eks' = [begun EXCEPT !.pc = "done",
                                     !.result = Returned(FALSE, "exists")]
           ELSE IF ~cost_ok
           THEN eks' = [begun EXCEPT !.pc = "done",
                                     !.result = Returned(FALSE, "cost estimate failed")]
           ELSE IF api # "ack"
           THEN eks' = [called EXCEPT !.pc = "done",
                                      !.result = Returned(FALSE, api)]
           ELSE eks' = [called EXCEPT !.pc = "create wait"]

\* one turn of the wait loop of create_performance_nodegroup (eks.py 568-590)
\* and what follows the loop (eks.py 592-616): the deadline, the status
\* query, the callback on a changed status, the test of the status, the sleep.
\* After the break on ACTIVE no return statement is reached.
CreateWait(current_status) ==
    /\ eks.pc = "create wait"
    /\ UNCHANGED <<ec2_state, monitor, perf, view, instance_info>>
    /\ IF eks.elapsed > max_wait_time
       THEN eks' = EksDone(Returned(FALSE, "timeout"))
       ELSE IF current_status = "raise"
       THEN eks' = EksDone(Returned(FALSE, "status query failed"))
       ELSE IF current_status # eks.last_status /\ current_status = None
       THEN eks' = [EksDone(Returned(FALSE, "callback failed"))
                        EXCEPT !.last_status = current_status]
       ELSE IF current_status = "ACTIVE"
       THEN eks' = [EksDone(ReturnedNone) EXCEPT !.last_status = current_status]
       ELSE IF current_status \in {"CREATE_FAILED", "DELETE_FAILED", "DEGRADED"}
       THEN eks' = [EksDone(Returned(FALSE, "failed state"))
                        EXCEPT !.last_status = current_status]
       ELSE eks' = [eks EXCEPT !.last_status = current_status,
                               !.elapsed = eks.elapsed + CreateSleep]

\* delete_performance_nodegroup (eks.py 618-732) up to the delete call:
\* current_status is the answer of the first status query, api that of
\* eks_client.delete_nodegroup; the scale-down before the call (eks.py 672-714)
\* changes nothing the function reads afterwards
delete_performance_nodegroup(current_status, api) ==
    /\ eks.pc = "idle"
    /\ UNCHANGED <<ec2_state, monitor, perf, view, instance_info>>
    /\ LET begun == [NoEksCall EXCEPT !.op = "delete", !.first = current_status]
           called == [begun EXCEPT !.calls = <<"eks.delete_nodegroup">>]
       IN  IF current_status = "raise"
           THEN eks' = [begun EXCEPT !.pc = "done",
                                     !.result = Returned(FALSE, "status query failed")]
           ELSE IF current_status = None
           THEN eks' = [begun EXCEPT !.pc = "done",
                                     !.result = Returned(FALSE, "not found")]
           ELSE IF current_status = "DELETING"
           THEN eks' = [begun EXCEPT !.pc = "done",
                                     !.result = Returned(TRUE, "being deleted")]
           ELSE IF current_status \in {"CREATE_FAILED", "DELETE_FAILED", "DEGRADED"}
           THEN eks' = [begun EXCEPT !.pc = "done",
                                     !.result = Returned(FALSE, "invalid state")]
           ELSE IF api # "ack"
           THEN eks' = [called EXCEPT !.pc = "done",
                                      !.result = Returned(FALSE, api)]
           ELSE eks' = [called EXCEPT !.pc = "delete wait"]

\* DeleteMonitor that takes a nodegroup out of DELETING as deleted
DeleteMonitorAnyStatus(verify_status) ==
    /\ eks.pc = "delete wait"
    /\ UNCHANGED <<ec2_state, monitor, perf, view, instance_info>>
    /\ IF eks.polls >= max_retries
       THEN eks' = EksDone(Returned(FALSE, "timeout"))
       ELSE LET polled == [eks EXCEPT !.polls = eks.polls + 1,
                                      !.last_status = verify_status]
            IN  IF verify_status = "raise"
                THEN eks' = [polled EXCEPT !.pc = "done",
                                 !.result = Returned(FALSE, "status query failed")]
                ELSE IF verify_status = "DELETE_FAILED"
                THEN eks' = [polled EXCEPT !.pc = "done",
                                 !.result = Returned(FALSE, "delete failed")]
                ELSE IF verify_status # "DELETING"
                THEN eks' = [polled EXCEPT !.pc = "done",
                                 !.result = Returned(TRUE, "deleted")]
                ELSE eks' = polled

\* one turn of the monitoring loop of delete_performance_nodegroup
\* (eks.py 735-820): for i in range(max_retries), the status query, the
\* three tests of the status, the sleep; after the loop, the time-out
DeleteMonitor(verify_status) ==
    /\ eks.pc = "delete wait"
    /\ UNCHANGED <<ec2_state, monitor, perf, view, instance_info>>
    /\ IF eks.polls >= max_retries
       THEN eks' = EksDone(Returned(FALSE, "timeout"))
       ELSE LET polled == [eks EXCEPT !.polls = eks.polls + 1,
                                      !.last_status = verify_status]
            IN  IF verify_status = "raise"
                THEN eks' = [polled EXCEPT !.pc = "done",
                                 !.result = Returned(FALSE, "status query failed")]
                ELSE IF verify_status = None
                THEN eks' = [polled EXCEPT !.pc = "done",
                                 !.result = Returned(TRUE, "deleted")]
                ELSE IF verify_status = "DELETE_FAILED"
                THEN eks' = [polled EXCEPT !.pc = "done",
                                 !.result = Returned(FALSE, "delete failed")]
                ELSE IF verify_status # "DELETING"
                THEN eks' = [polled EXCEPT !.pc = "done",
                                 !.result = Returned(FALSE, "unexpected status")]
                ELSE eks' = polled

\* the caller has the result and the manager is free again
EksReturn ==
    /\ eks.pc = "done"
    /\ eks' = NoEksCall
    /\ UNCHANGED <<ec2_state, monitor, perf, view, instance_info>>

\* ------------------------------------------------------------------------
\* EKSCommands.monitor_performance_nodes (commands.py 1398-1511)
\* ------------------------------------------------------------------------
\* Time is counted in halves of the monitor's interval (tasks.loop(minutes=5),
\* commands.py 1471): a run of the monitor comes every MonitorInterval halves
MonitorInterval == 2
\* running times are followed up to MaxRunning halves
MaxRunning == 9

\* values of EKS_PERF_MAX_HOURS (commands.py 1403), in halves of the
\* interval: below one interval, and between one and two intervals
EnvMaxHours == {1, 3}

PerfName == "perf-dev"

\* EKSCommands.__init__ (commands.py 1398-1413)
LoadCog(hours) ==
    /\ ~monitor.loaded
    /\ monitor' = [loaded |-> TRUE, max_running_hours |-> hours,
                   notified_nodegroups |-> {}]
    /\ UNCHANGED <<ec2_state, eks, perf, view, instance_info>>

\* a performance nodegroup is created in the cluster
NodegroupCreated ==
    /\ monitor.loaded
    /\ ~perf.exists
    /\ perf' = [exists |-> TRUE, running |-> 0, warned |-> 0]
    /\ UNCHANGED <<ec2_state, eks, monitor, view, instance_info>>

\* the performance nodegroup is deleted from the cluster
NodegroupDeleted ==
    /\ perf.exists
    /\ perf' = NoNodegroup
    /\ UNCHANGED <<ec2_state, eks, monitor, view, instance_info>>

\* get_nodegroup_running_time (eks.py 1228-1246) at a run of the monitor:
\* a nodegroup created since the last run has been running for first_age, the
\* others for one interval more
RunningTime(first_age) ==
    IF perf.running = 0 THEN first_age
    ELSE IF perf.running + MonitorInterval > MaxRunning THEN MaxRunning
    ELSE perf.running + MonitorInterval

\* one run of monitor_performance_nodes (commands.py 1471-1506). describe is
\* the outcome of the control-plane calls: "ok", "list fails" when
\* list_nodegroups raises (1504-1505), "describe fails" when
\* is_performance_nodegroup or get_nodegroup_running_time catches an error
\* (eks.py 1244-1246, 1260-1262)
monitor_performance_nodes(first_age, describe) ==
    /\ monitor.loaded
    /\ UNCHANGED <<ec2_state, eks, view, instance_info>>
    /\ IF ~perf.exists
       THEN UNCHANGED <<monitor, perf>>
       ELSE LET running_time == RunningTime(first_age)
                notified == PerfName \in monitor.notified_nodegroups
            IN  IF describe # "ok"
                THEN /\ perf' = [perf EXCEPT !.running = running_time]
                     /\ UNCHANGED monitor
                ELSE IF running_time >= monitor.max_running_hours /\ ~notified
                THEN /\ perf' = [perf EXCEPT !.running = running_time,
                                             !.warned = Count(perf.warned)]
                     /\ monitor' = [monitor EXCEPT !.notified_nodegroups =
                                        monitor.notified_nodegroups \cup {PerfName}]
                ELSE IF running_time < monitor.max_running_hours
                THEN /\ perf' = [perf EXCEPT !.running = running_time]
                     /\ monitor' = [monitor EXCEPT !.notified_nodegroups =
                                        monitor.notified_nodegroups \ {PerfName}]
                ELSE /\ perf' = [perf EXCEPT !.running = running_time]
                     /\ UNCHANGED monitor

\* ------------------------------------------------------------------------
\* The confirmation views of the nodegroup commands (main.py 12-32, 222-440;
\* commands.py 1521-1840)
\* ------------------------------------------------------------------------
Users == {"alice", "bob"}

\* the commands that confirm with a NodegroupButton view (main.py 222, 360)
\* and those that build their view in the cog (commands.py 1521, 1694)
ButtonCommands == {"eks-create", "eks-delete"}
CogCommands == {"eks setup-performance-for-dev", "eks delete-performance"}

Buttons == {"ON_DEMAND", "SPOT", "confirm", "cancel"}

\* a nodegroup command that gets as far as sending its view (main.py 278-279,
\* 395-396; commands.py 1687, 1829-1833)
NodegroupCommand(command, author) ==
    /\ view.stage = "closed"
    /\ view' = [command |-> command, author |-> author,
                stage |-> IF command = "eks setup-performance-for-dev"
                          THEN "choose" ELSE "confirm",
                value |-> None, pressed |-> None, by |-> None,
                refused |-> None, calls |-> <<>>]
    /\ UNCHANGED <<ec2_state, eks, monitor, perf, instance_info>>

\* what the command does once the confirmation is accepted: eks-create calls
\* EKSManager.create_nodegroup, which issues the create call (main.py 309,
\* eks.py 433); eks-delete calls EKSManager.delete_nodegroup, which the class
\* does not define (main.py 423); the cog's commands call
\* create_performance_nodegroup and delete_performance_nodegroup
\* (commands.py 1624, 1755), which issue their call when issues is true
Proceed(command, issues) ==
    IF command = "eks-create" THEN <<"eks.create_nodegroup">>
    ELSE IF command = "eks-delete" THEN <<>>
    ELSE IF ~issues THEN <<>>
    ELSE IF command = "eks setup-performance-for-dev"
    THEN <<"eks.create_nodegroup">>
    ELSE <<"eks.delete_nodegroup">>

\* a press of a button of the view by a user. NodegroupButton.confirm and
\* .cancel (main.py 18-28) set the value and stop the view, whoever presses;
\* the callbacks of the cog's views return at once for another user than the
\* author, who is told so (commands.py 1579-1581, 1596-1598, 1662-1664,
\* 1713-1715, 1812-1814)
Press(user, button, issues) ==
    /\ view.stage # "closed"
    /\ UNCHANGED <<ec2_state, eks, monitor, perf, instance_info>>
    /\ IF view.command \in ButtonCommands
       THEN /\ button \in {"confirm", "cancel"}
            /\ view' = [view EXCEPT
                    !.stage = "closed",
                    !.value = IF button = "confirm" THEN "True" ELSE "False",
                    !.pressed = button,
                    !.by = user,
                    !.calls = IF button = "confirm"
                              THEN Proceed(view.command, issues) ELSE <<>>]
       ELSE IF view.stage = "choose"
       THEN /\ button \in {"ON_DEMAND", "SPOT"}
            /\ IF user # view.author
               THEN view' = [view EXCEPT !.refused = user]
               ELSE view' = [view EXCEPT !.stage = "confirm"]
       ELSE /\ button \in {"confirm", "cancel"}
            /\ IF user # view.author
               THEN view' = [view EXCEPT !.refused = user]
               ELSE view' = [view EXCEPT
                       !.stage = "closed",
                       !.pressed = button,
                       !.by = user,
                       !.calls = IF button = "confirm"
                                 THEN Proceed(view.command, issues) ELSE <<>>]

\* the view times out with no accepted press: NodegroupButton.on_timeout
\* (main.py 30-32) sets the value to False; the cog's views just end
ViewTimeout ==
    /\ view.stage # "closed"
    /\ view' = [view EXCEPT
            !.stage = "closed",
            !.value = IF view.command \in ButtonCommands THEN "False" ELSE None]
    /\ UNCHANGED <<ec2_state, eks, monitor, perf, instance_info>>

\* ------------------------------------------------------------------------
\* RDSInstanceTypeInfo: the cache of instance memory (rds.py 22-104)
\* ------------------------------------------------------------------------
\* self._cache_duration = timedelta(days=1) (rds.py 37), in ticks of the clock
cache_duration == 1

\* the instance classes of the fallback table (rds.py 86-93) and one that is
\* not in it
fallback_memory == {"db.t4g.micro", "db.t4g.small"}
InstanceClasses == fallback_memory \cup {"db.r5.large"}

\* the answers of pricing_client.get_products (rds.py 67-73): a price list
\* with a memory attribute, one without, an error
PricingAnswers == {"memory", "no memory", "raise"}

\* _is_cache_valid (rds.py 39-48)
is_cache_valid ==
    /\ instance_info.cache_expiry # NoExpiry
    /\ now < instance_info.cache_expiry[1]
    /\ DOMAIN instance_info.cache # {}

\* the cache with the entry of instance_class stored at the present time
Stored(instance_class, origin) ==
    [c \in DOMAIN instance_info.cache \cup {instance_class} |->
        IF c = instance_class THEN [origin |-> origin, stored_at |-> now]
        ELSE instance_info.cache[c]]

\* get_instance_memory (rds.py 50-104)
get_instance_memory(instance_class, pricing) ==
    /\ UNCHANGED <<ec2_state, eks, monitor, perf, view>>
    /\ IF is_cache_valid /\ instance_class \in DOMAIN instance_info.cache
       THEN instance_info' = [instance_info EXCEPT !.served =
                [class |-> instance_class, source |-> "cache",
                 age |-> now - instance_info.cache[instance_class].stored_at]]
       ELSE IF pricing = "raise"
       THEN instance_info' = [instance_info EXCEPT !.served =
                [class |-> instance_class, source |-> "error", age |-> 0]]
       ELSE IF pricing = "memory"
       THEN instance_info' =
                [cache |-> Stored(instance_class, "pricing"),
                 cache_expiry |-> <<now + cache_duration>>,
                 served |-> [class |-> instance_class, source |-> "pricing",
                             age |-> 0]]
       ELSE IF instance_class \in fallback_memory
       THEN instance_info' =
                [instance_info EXCEPT
                    !.cache = Stored(instance_class, "fallback"),
                    !.served = [class |-> instance_class, source |-> "fallback",
                                age |-> 0]]
       ELSE instance_info' = [instance_info EXCEPT !.served =
                [class |-> instance_class, source |-> "not found", age |-> 0]]

\* how many polls of EC2Commands.wait_for_state fit into STATE_CHECK_TIMEOUT
MaxStatePolls == 2

\* the answers of the status queries of one wait: the loop test of
\* commands.py 160 admits the first query, and the deadline ends the sequence
StatePollAnswers ==
    UNION {[1..n -> StateQueries] : n \in 1..MaxStatePolls}

RECURSIVE commands_wait_for_state(_, _)
\* EC2Commands.wait_for_state (commands.py 152-177): the first element of the
\* returned pair is taken as the state and compared with the target
commands_wait_for_state(target_state, qs) ==
    IF qs = <<>> THEN "TimedOut"
    ELSE LET state == get_instance_state(Head(qs))[1]
         IN  IF state = PyStr(target_state) THEN "ok"
             ELSE IF state \in {PyStr("pending"), PyStr("stopping")}
             THEN commands_wait_for_state(target_state, Tail(qs))
             ELSE "UnexpectedState"

\* a call of EC2Commands.wait_for_state (commands.py 152-177)
CommandsWaitForState(server_name, target_state, qs) ==
    /\ last' = Result("commands.wait_for_state", server_name,
                      commands_wait_for_state(target_state, qs), NoCall)
    /\ UNCHANGED <<now, config, managers, poll, schedules, jobs, cmd, removed>>

\* how many polls of wait_for_rds_state fit into STATE_CHECK_TIMEOUT
MaxRdsPolls == 1

RdsPollAnswers ==
    UNION {[1..n -> RdsQueries] : n \in 0..MaxRdsPolls}

\* the rds-stop command (commands.py 923-956)
RdsStop(server_name, replica, api, qs) ==
    /\ UNCHANGED <<now, config, managers, poll, schedules, jobs, cmd, removed>>
    /\ IF server_name \notin DOMAIN RDS_INSTANCES
       THEN last' = Result("rds-stop", server_name, "ResourceNotFound", NoCall)
       ELSE IF RDS_CONTROL_LEVELS[server_name] # 1
       THEN last' = Result("rds-stop", server_name, "PermissionDenied", NoCall)
       ELSE LET instance_id == RDS_INSTANCES[server_name]
                r == rds_stop_instance(instance_id, replica, api)
            IN  IF r.err # "ok"
                THEN last' = Result("rds-stop", server_name, r.err, r.call)
                ELSE last' = Result("rds-stop", server_name,
                                    wait_for_rds_state(instance_id, "stopped", qs),
                                    r.call)

\* the rds-start command (commands.py 886-921)
RdsStart(server_name, replica, api, qs) ==
    /\ UNCHANGED <<now, config, managers, poll, schedules, jobs, cmd, removed>>
    /\ IF server_name \notin DOMAIN RDS_INSTANCES
       THEN last' = Result("rds-start", server_name, "ResourceNotFound", NoCall)
       ELSE IF RDS_CONTROL_LEVELS[server_name] # 1
       THEN last' = Result("rds-start", server_name, "PermissionDenied", NoCall)
       ELSE LET instance_id == RDS_INSTANCES[server_name]
                r == rds_start_instance(instance_id, replica, api)
            IN  IF r.err # "ok"
                THEN last' = Result("rds-start", server_name, r.err, r.call)
                ELSE last' = Result("rds-start", server_name,
                                    wait_for_rds_state(instance_id, "available", qs),
                                    r.call)

NoFaults == [i \in InstanceIds |-> NoFault]

\* the ticks between the two clock reads of add_schedule (ec2.py 296, 337):
\* both fall in one tick
ClockSkews == {0}

\* the pairs of time arguments of a schedule command: a time that
\* add_schedule refuses comes with every accepted choice of the other one
AcceptedArgs == {NoTime, T0900, T1800}
TimePairs ==
    {p \in TimeArgs \X TimeArgs : p[1] \in AcceptedArgs \/ p[2] \in AcceptedArgs}

\* the describe_instances outcomes that end add_schedule before it reads the
\* times are drawn once; "found" is drawn with every pair of times
ScheduleCmd ==
    \/ \E n \in EC2Names, e \in ExistsOutcomes \ {"found"}, k \in ClockSkews :
           Schedule(n, NoTime, NoTime, e, k, NoFault)
    \/ \E n \in DOMAIN EC2_INSTANCES, p \in TimePairs, k \in ClockSkews :
           Schedule(n, p[1], p[2], "found", k, NoFault)

UnscheduleCmd == \E n \in EC2Names : Unschedule(n, NoFault)

SweepCall == Sweep(NoFaults)

Fire == \E j \in jobs, a \in ApiOutcomes : FireTrigger(j, a)

StopCmd ==
    \E n \in EC2Names \cup {None}, q \in StateQueries, a \in ApiOutcomes :
        StopCommand(n, q, a)

StopPollStep == \E q \in StateQueries : StopPoll(q)

StartCmd ==
    \E n \in EC2Names \cup {None}, q \in StateQueries, a \in ApiOutcomes :
        StartCommand(n, q, a)

StartPollStep == \E q \in StateQueries : StartPoll(q)

\* the polls of wait_for_rds_state are drawn when the command gets to them:
\* a known instance of the full-control level, not a replica, the call
\* acknowledged
RdsWaits(n, replica, a) ==
    /\ n \in DOMAIN RDS_INSTANCES
    /\ RDS_CONTROL_LEVELS[n] = 1
    /\ ~replica
    /\ a = "ack"

RdsStopCmd ==
    \E n \in RDSNames, rep \in BOOLEAN, a \in ApiOutcomes :
        IF RdsWaits(n, rep, a)
        THEN \E qs \in RdsPollAnswers : RdsStop(n, rep, a, qs)
        ELSE RdsStop(n, rep, a, <<>>)

\* the schedule store and the job store under every sequence of schedule,
\* unschedule and sweep calls, and the clock; a job that runs changes neither
\* store and is followed in NextGate and NextRun
Next ==
    \/ ScheduleCmd
    \/ UnscheduleCmd
    \/ SweepCall
    \/ Tick

Spec == Init /\ [][Next]_vars

\* the store and the clock, with a scheduler call that raises inside a
\* handler; the schedules asked for are the default one and 9:5 to 18:00
FaultStarts == {NoTime, T9_5}

ScheduleFault ==
    \E n \in DOMAIN EC2_INSTANCES, st \in FaultStarts, k \in ClockSkews,
       f \in {NoFault} \cup AddFaults : Schedule(n, st, NoTime, "found", k, f)

UnscheduleFault ==
    \E n \in EC2Names, f \in {NoFault} \cup RemoveFaults : Unschedule(n, f)

SweepFault == \E ff \in [InstanceIds -> {NoFault} \cup RemoveFaults] : Sweep(ff)

NextFault ==
    \/ ScheduleFault
    \/ UnscheduleFault
    \/ SweepFault
    \/ Tick

SpecFault == Init /\ [][NextFault]_vars

\* every path that can ask for a start or a stop: the commands, up to their
\* wait loops, and the scheduled jobs
NextGate ==
    \/ ScheduleCmd
    \/ UnscheduleCmd
    \/ Fire
    \/ StopCmd
    \/ StartCmd
    \/ RdsStopCmd

SpecGate == Init /\ [][NextGate]_vars

\* the start and stop commands with their wait loops
RdsStartCmd ==
    \E n \in RDSNames, rep \in BOOLEAN, a \in ApiOutcomes :
        IF RdsWaits(n, rep, a)
        THEN \E qs \in RdsPollAnswers : RdsStart(n, rep, a, qs)
        ELSE RdsStart(n, rep, a, <<>>)

CommandsWait ==
    \E n \in DOMAIN EC2_INSTANCES, t \in {"running", "stopped"},
       qs \in StatePollAnswers :
        CommandsWaitForState(n, t, qs)

NextFlow ==
    \/ StartCmd
    \/ StartPollStep
    \/ StopCmd
    \/ StopPollStep
    \/ CommandsWait
    \/ RdsStartCmd
    \/ RdsStopCmd

SpecFlow == Init /\ [][NextFlow]_vars

\* the calls of EKSManager on the performance nodegroup, and the answers of
\* the control plane to each of their queries
CreateCall ==
    \E st \in StatusAnswers, c \in BOOLEAN, a \in EksApiOutcomes :
        create_performance_nodegroup(st, c, a)

CreateWaitStep == \E st \in StatusAnswers : CreateWait(st)

DeleteCall ==
    \E st \in StatusAnswers, a \in EksApiOutcomes :
        delete_performance_nodegroup(st, a)

DeleteMonitorStep == \E st \in StatusAnswers : DeleteMonitor(st)

NextEks ==
    \/ CreateCall
    \/ CreateWaitStep
    \/ DeleteCall
    \/ DeleteMonitorStep
    \/ EksReturn

SpecEks == Init /\ [][NextEks]_vars

\* the lookups of instance memory, and the clock
MemoryLookup ==
    \E c \in InstanceClasses, p \in PricingAnswers : get_instance_memory(c, p)

NextCache ==
    \/ MemoryLookup
    \/ Tick

SpecCache == Init /\ [][NextCache]_vars

\* the nodegroup commands and the presses on their views
NodegroupCmd ==
    \E c \in ButtonCommands \cup CogCommands, u \in Users : NodegroupCommand(c, u)

ButtonPress ==
    \E u \in Users, b \in Buttons, i \in BOOLEAN : Press(u, b, i)

NextConfirm ==
    \/ NodegroupCmd
    \/ ButtonPress
    \/ ViewTimeout

SpecConfirm == Init /\ [][NextConfirm]_vars

\* the monitor of the performance nodegroups, and the nodegroup created and
\* deleted between its runs
CogLoaded == \E h \in EnvMaxHours : LoadCog(h)

MonitorRun ==
    \E first_age \in 1..MonitorInterval,
       describe \in {"ok", "list fails", "describe fails"} :
        monitor_performance_nodes(first_age, describe)

NextMonitor ==
    \/ CogLoaded
    \/ NodegroupCreated
    \/ NodegroupDeleted
    \/ MonitorRun

SpecMonitor == Init /\ [][NextMonitor]_vars

\* a caller of wait_for_state and the answers of the status queries
WaitCall == \E t \in PollTargets, to \in PollTimeouts : WaitForState(t, to)

PollStep == \E q \in StateQueries : PollOnce(q)

NextPoll ==
    \/ WaitCall
    \/ LoopTest
    \/ PollStep
    \/ WaitReturn

SpecPoll == Init /\ [][NextPoll]_vars

\* a wait for "running" on an instance that stays in a state that is neither
\* the target nor invalid; the event loop runs the session on
WaitTimeouts == {1, 300, 86400}

WaitLong == \E to \in WaitTimeouts : WaitForState("running", to)

NeutralPoll ==
    \E q \in StateQueries :
        /\ q.ok
        /\ q.state \notin {poll.target, "terminated", "shutting-down"}
        /\ PollOnce(q)

NextWait ==
    \/ WaitLong
    \/ LoopTest
    \/ NeutralPoll
    \/ WaitReturn

SpecWait ==
    Init /\ [][NextWait]_vars /\ WF_vars(LoopTest) /\ WF_vars(NeutralPoll)

\* the two clock reads of add_schedule (ec2.py 296, 337) in one tick or in
\* two
ReadSkews == {0, 1}

ScheduleSkew ==
    \E n \in DOMAIN EC2_INSTANCES, st \in FaultStarts, k \in ReadSkews :
        Schedule(n, st, NoTime, "found", k, NoFault)

\* the store under a clock that may advance inside add_schedule
NextClock ==
    \/ ScheduleSkew
    \/ UnscheduleCmd
    \/ Tick

SpecClock == Init /\ [][NextClock]_vars

\* the running bot: nothing in it calls cleanup_expired_schedules. The event
\* loop lets time pass and runs due jobs; no user command need ever arrive
NextRun ==
    \/ ScheduleCmd
    \/ UnscheduleCmd
    \/ Tick
    \/ Fire

SpecRun == Init /\ [][NextRun]_vars /\ WF_vars(Tick) /\ WF_vars(Fire)

\* ------------------------------------------------------------------------
\* The vocabulary of the properties
\* ------------------------------------------------------------------------
\* HH:MM with two digits each, 0 <= HH <= 23, 0 <= MM <= 59
HourOf(t) == 10 * DigitVal(t[1]) + DigitVal(t[2])
MinuteOf(t) == 10 * DigitVal(t[4]) + DigitVal(t[5])

WellFormed(t) ==
    /\ Len(t) = 5
    /\ t[3] = ":"
    /\ \A i \in {1, 2, 4, 5} : t[i] \in DigitChars
    /\ HourOf(t) <= 23
    /\ MinuteOf(t) <= 59

\* the time a call asks for: the argument, or the default when it is omitted
Asked(t, default) == IF t = NoTime THEN default ELSE t

MinutesOf(t) == HourOf(t) * 60 + MinuteOf(t)

\* a pair of valid times, the stop after the start
ValidPair(st, sp) ==
    /\ WellFormed(Asked(st, default_start_time))
    /\ WellFormed(Asked(sp, default_stop_time))
    /\ MinutesOf(Asked(sp, default_stop_time)) > MinutesOf(Asked(st, default_start_time))

StartJobs(js, instance_id) ==
    {j \in js : j.func = "start_instance" /\ j.arg = instance_id}
StopJobs(js, instance_id) ==
    {j \in js : j.func = "stop_instance" /\ j.arg = instance_id}

\* the one job of a kind, at the time t, in the configured timezone
IsTriggerAt(j, t) ==
    j.hour = HourOf(t) /\ j.minute = MinuteOf(t) /\ j.timezone = timezone

\* ------------------------------------------------------------------------
\* Properties
\* ------------------------------------------------------------------------
\* C1: a schedule call with valid times for a known resource that already has
\* a schedule succeeds, and afterwards the resource has exactly one start and
\* one stop trigger, both at the new times.
C1_ReplacementSucceeds ==
    [][\A n \in DOMAIN EC2_INSTANCES, st \in TimeArgs, sp \in TimeArgs :
          LET id == EC2_INSTANCES[n]
          IN  (/\ ValidPair(st, sp)
               /\ id \in DOMAIN schedules
               /\ (\E k \in ClockSkews : Schedule(n, st, sp, "found", k, NoFault)))
              => /\ last'.err = "ok"
                 /\ Cardinality(StartJobs(jobs', id)) = 1
                 /\ Cardinality(StopJobs(jobs', id)) = 1
                 /\ \A j \in StartJobs(jobs', id) :
                        IsTriggerAt(j, Asked(st, default_start_time))
                 /\ \A j \in StopJobs(jobs', id) :
                        IsTriggerAt(j, Asked(sp, default_stop_time))]_vars

\* C2: in every state each resource id has at most one start trigger and at
\* most one stop trigger in the scheduler.
C2_AtMostOnePair ==
    \A id \in InstanceIds :
        /\ Cardinality(StartJobs(jobs, id)) <= 1
        /\ Cardinality(StopJobs(jobs, id)) <= 1

\* a schedule was replaced, and its resource has one trigger of each kind
C2_Witness ==
    /\ last.op = "schedule"
    /\ last.err = "ok"
    /\ last.replaced
    /\ Cardinality(StartJobs(jobs, last.id)) = 1
    /\ Cardinality(StopJobs(jobs, last.id)) = 1

\* C3: a resource id has a stored record if and only if both its start and
\* its stop trigger are registered, and the triggers fire at the hour and
\* minute of the record's start and stop time, also after a scheduler call
\* that failed.
C3_TriggersDerived ==
    \A id \in InstanceIds :
        /\ id \in DOMAIN schedules
               <=> (StartJobs(jobs, id) # {} /\ StopJobs(jobs, id) # {})
        /\ id \in DOMAIN schedules =>
               /\ \A j \in StartJobs(jobs, id) :
                      /\ j.hour = Parsed[schedules[id].start_time].hour
                      /\ j.minute = Parsed[schedules[id].start_time].minute
               /\ \A j \in StopJobs(jobs, id) :
                      /\ j.hour = Parsed[schedules[id].stop_time].hour
                      /\ j.minute = Parsed[schedules[id].stop_time].minute

\* C4: for a known resource and a pair of valid times with the stop after the
\* start, the schedule call succeeds and get_schedule then returns a record
\* with exactly those times and the configured timezone.
C4_ValidScheduleStored ==
    [][\A n \in DOMAIN EC2_INSTANCES, st \in TimeArgs, sp \in TimeArgs :
          LET id == EC2_INSTANCES[n]
          IN  (ValidPair(st, sp) /\ (\E k \in ClockSkews : Schedule(n, st, sp, "found", k, NoFault)))
              => /\ last'.err = "ok"
                 /\ get_schedule(id)' # NoSchedule
                 /\ get_schedule(id)'.start_time = Asked(st, default_start_time)
                 /\ get_schedule(id)'.stop_time = Asked(sp, default_stop_time)
                 /\ get_schedule(id)'.timezone = timezone]_vars

\* C5: for a pair of well-formed times with the stop not after the start, the
\* schedule call fails with InvalidTimeRange and leaves the store and the
\* triggers as they were.
C5_RangeRefused ==
    [][\A n \in DOMAIN EC2_INSTANCES, st \in TimeArgs, sp \in TimeArgs :
          (/\ WellFormed(Asked(st, default_start_time))
           /\ WellFormed(Asked(sp, default_stop_time))
           /\ MinutesOf(Asked(sp, default_stop_time))
                  <= MinutesOf(Asked(st, default_start_time))
           /\ (\E k \in ClockSkews : Schedule(n, st, sp, "found", k, NoFault)))
          => /\ last'.err = "InvalidTimeRange"
             /\ UNCHANGED <<schedules, jobs>>]_vars

\* a time string that is given and is not HH:MM within range
Malformed(t) == t # NoTime /\ ~WellFormed(t)

\* C6: a schedule call with a malformed start or stop time fails with
\* InvalidTimeFormat, stores no record and registers no trigger.
C6_MalformedRefused ==
    [][\A n \in DOMAIN EC2_INSTANCES, st \in TimeArgs, sp \in TimeArgs :
          ((Malformed(st) \/ Malformed(sp))
               /\ (\E k \in ClockSkews : Schedule(n, st, sp, "found", k, NoFault)))
          => /\ last'.err \in InvalidTimeFormat
             /\ UNCHANGED <<schedules, jobs>>]_vars

\* C7: for a resource with a schedule, unschedule succeeds, cancels both
\* triggers and deletes the record; unschedule again, with no schedule call
\* for the resource in between, fails with ScheduleNotFound and changes nothing.
C7_RemoveTwice ==
    [][\A n \in DOMAIN EC2_INSTANCES :
          LET id == EC2_INSTANCES[n]
          IN  Unschedule(n, NoFault)
              => /\ id \in DOMAIN schedules =>
                        /\ last'.err = "ok"
                        /\ id \notin DOMAIN schedules'
                        /\ StartJobs(jobs', id) = {} /\ StopJobs(jobs', id) = {}
                 /\ id \in removed =>
                        /\ last'.err = "ScheduleNotFound"
                        /\ UNCHANGED <<schedules, jobs>>]_vars

\* the second unschedule of a resource has been refused
C7_Witness ==
    /\ last.op = "unschedule"
    /\ last.err = "ScheduleNotFound"
    /\ last.id \in removed

\* C8: cleanup_expired_schedules removes exactly the records with
\* now > expires_at and their triggers, leaves every other record and trigger
\* as it was, the removed ids are not listed afterwards, and a second run at
\* the same time changes nothing.
C8_SweepExact ==
    [][Sweep(NoFaults) =>
          LET gone == {i \in DOMAIN schedules : now > schedules[i].expires_at[2]}
          IN  /\ DOMAIN schedules' = DOMAIN schedules \ gone
              /\ \A i \in DOMAIN schedules' : schedules'[i] = schedules[i]
              /\ jobs' = {j \in jobs : j.arg \notin gone}
              /\ \A i \in gone : i \notin DOMAIN list_schedules'
              /\ cleanup_expired_schedules(NoFaults)'
                     = [schedules |-> schedules', jobs |-> jobs']]_vars

\* a sweep removed an expired record and kept one that was not expired
C8_Witness ==
    /\ last.op = "sweep"
    /\ last.expired # {}
    /\ DOMAIN schedules # {}
    /\ \A i \in last.expired : i \notin DOMAIN schedules

\* C9: without any user command, every record is eventually removed once the
\* clock has passed its expires_at.
C9_ExpiredEventuallySwept ==
    \A id \in InstanceIds :
        (id \in DOMAIN schedules /\ now > schedules[id].expires_at[2])
            ~> (id \notin DOMAIN schedules)

\* the names and ids of the metrics-only resources
MetricsOnlyEC2 ==
    {n \in DOMAIN EC2_CONTROL_LEVELS : EC2_CONTROL_LEVELS[n] = 2}
        \cup {EC2_INSTANCES[n] : n \in {m \in DOMAIN EC2_CONTROL_LEVELS :
                                            EC2_CONTROL_LEVELS[m] = 2}}
MetricsOnlyRDS ==
    {n \in DOMAIN RDS_CONTROL_LEVELS : RDS_CONTROL_LEVELS[n] = 2}
        \cup {RDS_INSTANCES[n] : n \in {m \in DOMAIN RDS_CONTROL_LEVELS :
                                            RDS_CONTROL_LEVELS[m] = 2}}

IsStopCall(call) ==
    Len(call) > 0 /\ call[1] \in {"ec2.stop_instances", "rds.stop_db_instance"}

\* C10: no stop call goes out for a metrics-only resource: the stop command,
\* the rds-stop command and a stop trigger that fires each end with
\* PermissionDenied and without a call of the control plane.
C10_NoStopForMetricsOnly ==
    /\ IsStopCall(last.call) =>
           last.call[2] \notin MetricsOnlyEC2 \cup MetricsOnlyRDS
    /\ (last.op \in {"stop", "stop_instance"} /\ last.id \in MetricsOnlyEC2) =>
           (last.err = "PermissionDenied" /\ last.call = NoCall)
    /\ (last.op = "rds-stop" /\ last.id \in MetricsOnlyRDS) =>
           (last.err = "PermissionDenied" /\ last.call = NoCall)

\* the stop trigger of a metrics-only instance fired and was refused
C10_Witness ==
    /\ last.op = "stop_instance"
    /\ last.id \in MetricsOnlyEC2
    /\ last.err = "PermissionDenied"

\* C11: a start of a known resource whose external call is acknowledged, asked
\* by the start command or by a start trigger, issues the start call for that
\* resource id and succeeds, whatever the control level of the resource.
C11_StartNotGated ==
    [][/\ \A j \in jobs :
              (j.func = "start_instance" /\ FireTrigger(j, "ack"))
                  => /\ last'.err = "ok"
                     /\ last'.call = <<"ec2.start_instances", j.arg>>
       /\ \A n \in DOMAIN EC2_INSTANCES, q \in StateQueries :
              (q.ok /\ q.state # "running" /\ StartCommand(n, q, "ack"))
                  => /\ last'.err = "Waiting"
                     /\ last'.call = <<"ec2.start_instances", EC2_INSTANCES[n]>>]_vars

\* the states wait_for_state takes as invalid
TerminalInvalid == {"terminated", "shutting-down"}

C13_InvalidAtOnce ==
    [][/\ \A q \in StateQueries :
              (/\ q.ok /\ q.state \in TerminalInvalid /\ q.state # poll.target
               /\ PollOnce(q))
                  => /\ poll'.pc = "done"
                     /\ poll'.outcome = "Invalid"
                     /\ poll'.sleeps = poll.sleeps
                     /\ poll'.elapsed = poll.elapsed
       /\ (poll.pc = "done" /\ poll.outcome = "Invalid") => poll' = NoSession]_vars

\* a session ended with Invalid after it had slept
C13_Witness ==
    /\ poll.pc = "done"
    /\ poll.outcome = "Invalid"
    /\ poll.sleeps >= 1

\* C14: a status query that fails ends the session with QueryFailed on that
\* poll, without a sleep, and the session then only returns that failure.
C14_QueryFailedEnds ==
    [][/\ \A q \in StateQueries :
              (~q.ok /\ PollOnce(q))
                  => /\ poll'.pc = "done"
                     /\ poll'.outcome = "QueryFailed"
                     /\ poll'.sleeps = poll.sleeps
                     /\ poll'.elapsed = poll.elapsed
       /\ (poll.pc = "done" /\ poll.outcome = "QueryFailed")
              => (poll' = NoSession /\ last'.err = "QueryFailed")]_vars

\* the failure of a query was returned to the caller
C14_Witness ==
    /\ last.op = "wait_for_state"
    /\ last.err = "QueryFailed"
    /\ poll = NoSession

\* C15: a wait_for_state session whose queries all succeed and report a state
\* that is neither the target nor invalid ends with TimedOut.
C15_NeutralTimesOut ==
    (poll.pc = "test") ~> (poll.pc = "done" /\ poll.outcome = "TimedOut")

\* C16: the wait of a start or stop command ends within STATE_CHECK_TIMEOUT:
\* no command is still in its wait loop after it has slept for longer.
C16_WaitsBounded ==
    cmd # Idle => cmd.waited <= STATE_CHECK_TIMEOUT

\* C17: when the start or stop action run by a trigger fails, by a refusal
\* or by an error of the external call, the record and both triggers of the
\* resource stay as they were, and the trigger that ran is still registered.
C17_FailedRunKeepsTrigger ==
    [][\A j \in jobs, a \in ApiOutcomes :
          (FireTrigger(j, a) /\ last'.err # "ok")
              => /\ UNCHANGED <<schedules, jobs>>
                 /\ j \in jobs'
                 /\ j.arg \in DOMAIN schedules'
                 /\ StartJobs(jobs', j.arg) # {}
                 /\ StopJobs(jobs', j.arg) # {}]_vars

\* the external call of a trigger failed, and its schedule is still in place
C17_Witness ==
    /\ last.op \in {"start_instance", "stop_instance"}
    /\ last.err = "ActionFailed"
    /\ last.id \in DOMAIN schedules
    /\ StartJobs(jobs, last.id) # {}
    /\ StopJobs(jobs, last.id) # {}

\* C18: the outcome of a schedule call for a resource does not depend on the
\* schedules of other resources: with valid times, a resource that has no
\* schedule of its own gets one, whatever the other resources hold.
C18_Independent ==
    [][\A n \in DOMAIN EC2_INSTANCES, p \in TimePairs :
          LET id == EC2_INSTANCES[n]
          IN  (/\ ValidPair(p[1], p[2])
               /\ id \notin DOMAIN schedules
               /\ max_schedules_per_instance >= 1
               /\ (\E k \in ClockSkews :
                       Schedule(n, p[1], p[2], "found", k, NoFault)))
              => /\ last'.err = "ok"
                 /\ id \in DOMAIN schedules'
                 /\ \A i \in DOMAIN schedules : schedules'[i] = schedules[i]]_vars

\* C19: after a successful unschedule of a resource no scheduled start or stop
\* runs for it until a schedule call for it succeeds: a job runs only for a
\* resource with a record, a successful unschedule leaves neither record nor
\* job of the resource, and a record appears only by a successful schedule
\* call for that resource.
C19_NoRunAfterRemove ==
    [][/\ \A j \in jobs, a \in ApiOutcomes :
              FireTrigger(j, a) => j.arg \in DOMAIN schedules
       /\ \A n \in DOMAIN EC2_INSTANCES :
              (Unschedule(n, NoFault) /\ last'.err = "ok")
                  => /\ EC2_INSTANCES[n] \notin DOMAIN schedules'
                     /\ \A j \in jobs' : j.arg # EC2_INSTANCES[n]
       /\ \A id \in InstanceIds :
              (id \notin DOMAIN schedules /\ id \in DOMAIN schedules')
                  => /\ last'.op = "schedule"
                     /\ last'.id = id
                     /\ last'.err = "ok"
       /\ \A id \in InstanceIds :
              (id \notin DOMAIN schedules /\ id \notin DOMAIN schedules')
                  => \A j \in jobs' : j.arg # id]_vars

\* a resource was unscheduled while the jobs of another one stay registered
C19_Witness ==
    /\ last.op = "unschedule"
    /\ last.err = "ok"
    /\ last.id \in removed
    /\ jobs # {}
    /\ \A j \in jobs : j.arg # last.id

\* C20: every stored record has expires_at = created_at + the retention
\* exactly, and the two triggers of its resource fire at the hour and minute
\* of its start and stop time, in the configured timezone.
C20_ExpiryExact ==
    \A id \in DOMAIN schedules :
        /\ fromisoformat(schedules[id].expires_at)
               = fromisoformat(schedules[id].created_at) + schedule_retention_days
        /\ \A j \in StartJobs(jobs, id) :
               /\ j.hour = Parsed[schedules[id].start_time].hour
               /\ j.minute = Parsed[schedules[id].start_time].minute
               /\ j.timezone = timezone
        /\ \A j \in StopJobs(jobs, id) :
               /\ j.hour = Parsed[schedules[id].stop_time].hour
               /\ j.minute = Parsed[schedules[id].stop_time].minute
               /\ j.timezone = timezone

C23_StateNameFirst ==
    [][\A n \in DOMAIN EC2_INSTANCES, t \in {"running", "stopped"},
          qs \in StatePollAnswers :
           (/\ qs[1].ok /\ qs[1].state = t
            /\ CommandsWaitForState(n, t, qs))
               => last'.err = "ok"]_vars

\* C24: the start command issues the external start call only when the
\* instance is not already running: on a status of 'running' it reports that
\* the server is already running and issues no call; on a status of 'stopped'
\* it issues the start call for the instance, and reports that the server is
\* starting when the call is acknowledged.
C24_StartOnlyWhenNotRunning ==
    [][\A n \in DOMAIN EC2_INSTANCES, q \in StateQueries, api \in ApiOutcomes :
           (q.ok /\ StartCommand(n, q, api))
               => /\ q.state = "running"
                       => last'.err = "AlreadyRunning" /\ last'.call = NoCall
                  /\ q.state = "stopped"
                       => /\ last'.call = <<"ec2.start_instances", EC2_INSTANCES[n]>>
                          /\ api = "ack" => last'.err = "Waiting"]_vars

\* the polls qs stay in the transitional status until the last one, which
\* reports the target status
PollsReach(qs, transitional, target_state) ==
    /\ qs # <<>>
    /\ \A i \in 1..Len(qs) :
           /\ qs[i].ok
           /\ qs[i].status = IF i = Len(qs) THEN target_state ELSE transitional

\* C25: after an acknowledged RDS start (stop) call, wait_for_rds_state polls
\* on while the status is 'starting' ('stopping') and returns success once the
\* polled status is 'available' ('stopped'), and rds-start (rds-stop) ends as
\* succeeded.
C25_RdsWaitReachesTarget ==
    [][\A n \in DOMAIN RDS_INSTANCES, qs \in RdsPollAnswers :
           RDS_CONTROL_LEVELS[n] = 1
               => /\ (/\ PollsReach(qs, "starting", "available")
                      /\ RdsStart(n, FALSE, "ack", qs))
                         => last'.err = "ok"
                  /\ (/\ PollsReach(qs, "stopping", "stopped")
                      /\ RdsStop(n, FALSE, "ack", qs))
                         => last'.err = "ok"]_vars

\* C26: create_performance_nodegroup issues the create call only if the
\* nodegroup was not found, and every call of it returns a (success, message)
\* pair: success when the status becomes ACTIVE, failure on CREATE_FAILED,
\* DELETE_FAILED or DEGRADED and when the 20 minutes have passed.
C26_CreateReturnsPair ==
    (eks.op = "create" /\ eks.pc = "done")
        => /\ eks.calls # <<>> => eks.first = None
           /\ eks.result.returned = "tuple"
           /\ eks.last_status = "ACTIVE" => eks.result.success
           /\ eks.last_status \in {"CREATE_FAILED", "DELETE_FAILED", "DEGRADED"}
                 => ~eks.result.success
           /\ eks.elapsed > max_wait_time => ~eks.result.success

\* C27: delete_performance_nodegroup issues the delete call only when the
\* nodegroup exists in a status other than DELETING, CREATE_FAILED,
\* DELETE_FAILED and DEGRADED; it then queries the status at most 30 times and
\* returns success only when the nodegroup is no longer found, and failure on
\* DELETE_FAILED, on any other status than DELETING and after 30 queries.
C27_DeleteGuardedAndBounded ==
    eks.op = "delete"
        => /\ eks.calls # <<>>
                 => eks.first \in NodegroupStatuses
                        \ {"DELETING", "CREATE_FAILED", "DELETE_FAILED", "DEGRADED"}
           /\ eks.polls <= max_retries
           /\ (eks.pc = "done" /\ eks.calls # <<>>)
                 => /\ eks.result.returned = "tuple"
                    /\ eks.result.success
                          <=> (eks.polls > 0 /\ eks.last_status = None
                               /\ eks.result.message = "deleted")
                    /\ (eks.polls = max_retries /\ eks.last_status = "DELETING")
                          => eks.result.message = "timeout"
           /\ eks.pc = "delete wait"
                 => eks.polls = 0 \/ eks.last_status = "DELETING"

\* all 30 queries found the nodegroup in DELETING and the call timed out
C27_Witness ==
    /\ eks.op = "delete"
    /\ eks.pc = "done"
    /\ eks.polls = max_retries
    /\ eks.result = Returned(FALSE, "timeout")

\* C28: the monitor warns once per over-limit period: a nodegroup gets at
\* most one warning, and after every run of the monitor that finds it at or
\* above the maximum running time it has got exactly one, also a nodegroup
\* created under the name of one that was warned about and deleted.
C28_WarnedOncePerPeriod ==
    [][/\ perf'.warned <= 1
       /\ \A first_age \in 1..MonitorInterval :
              (/\ perf.exists
               /\ monitor_performance_nodes(first_age, "ok")
               /\ perf'.running >= monitor.max_running_hours)
                  => perf'.warned = 1]_vars

\* C29: a nodegroup create or delete call is issued only after the user who
\* invoked the command pressed confirm on its view; a cancel, a timeout and a
\* press by another user lead to no call; one command leads to at most one
\* call.
C29_CallOnlyOnAuthorConfirm ==
    /\ Len(view.calls) <= 1
    /\ view.calls # <<>> => (view.pressed = "confirm" /\ view.by = view.author)

\* C30: the memory cache serves no stale entry: a value returned from the
\* cache was stored at most one cache duration before, and a value stored
\* from the fallback table is served from the cache by the next lookup of its
\* instance class.
C30_CacheFresh ==
    [][/\ instance_info'.served.source = "cache"
            => instance_info'.served.age <= cache_duration
       /\ \A c \in InstanceClasses, p \in PricingAnswers :
              (/\ instance_info.served = [class |-> c, source |-> "fallback",
                                          age |-> 0]
               /\ get_instance_memory(c, p))
                  => instance_info'.served.source = "cache"]_vars

====
